---- MODULE Spec2Model ----
(***************************************************************************)
(* Crash-detection logger: the CSV event log (drivers/csv_interface.py)    *)
(* written by a producer thread, and the cooperative HTTP server           *)
(* (webserver/webserver.py) that serves it.                                *)
(*                                                                         *)
(* Text is a sequence of tokens: a token is a run of characters that no    *)
(* operation of the program ever cuts (a cell, ",", "\n", a status line).  *)
(***************************************************************************)
EXTENDS Integers, Sequences, FiniteSets, TLC

\* ------------------------------------------------------------------ bounds
MaxAppends == 2      \* write_row calls the producer makes after construction
MaxConns == 3        \* connections from allowed peers in one run of Spec
MaxFwConns == 12     \* connections from allowed peers in one run of SpecFirewall
MaxTicks == 1        \* connections that arrive after a pause
MaxTaskConns == 3    \* connections in one run of SpecTasks
MaxFaultConns == 2   \* connections in one run of SpecFaults
MaxCalls == 4        \* calls made on one BufferedWriter in SpecWriter
MaxWindowConns == 4  \* connections in one run of SpecWindows
MaxLiveConns == 1    \* connections in one run of SpecLive
MaxLiveAppends == 1  \* write_row calls the producer makes in SpecLive

\* --------------------------------------------------- program constants
MAX_REQUESTS == 10
WINDOW_MS == 5000
BUF_SIZE == 2048
CHUNK == 1024
TICKS_PERIOD == 1073741824
TICKS_HALF == TICKS_PERIOD \div 2

ALLOWED_SUBNET == <<"192", ".", "168", ".", "4", ".">>
ALLOWED_PATHS == {<<"/">>, <<"/status">>, <<"/table_rows">>}
HEADER == <<"Time since boot (mm:ss:msms)", "G-Force">>

\* ------------------------------------------------------------ text helpers
WS == {" ", "\r", "\n", "\t", "\r\n"}

RECURSIVE Flatten(_)
Flatten(ss) == IF ss = <<>> THEN <<>> ELSE Head(ss) \o Flatten(Tail(ss))

\* str.join: the items separated by sep
RECURSIVE Join(_, _)
Join(items, sep) ==
    IF items = <<>> THEN <<>>
    ELSE IF Len(items) = 1 THEN <<items[1]>>
    ELSE <<items[1], sep>> \o Join(Tail(items), sep)

\* str.split(sep): the maximal runs between separators, empty runs included
RECURSIVE SplitAcc(_, _, _)
SplitAcc(s, sep, cur) ==
    IF s = <<>> THEN <<cur>>
    ELSE IF Head(s) = sep THEN <<cur>> \o SplitAcc(Tail(s), sep, <<>>)
    ELSE SplitAcc(Tail(s), sep, Append(cur, Head(s)))
Split(s, sep) == SplitAcc(s, sep, <<>>)

\* str.strip(): leading and trailing whitespace removed
RECURSIVE LStrip(_)
LStrip(s) == IF s # <<>> /\ Head(s) \in WS THEN LStrip(Tail(s)) ELSE s
RECURSIVE RStrip(_)
RStrip(s) ==
    IF s # <<>> /\ s[Len(s)] \in WS THEN RStrip(SubSeq(s, 1, Len(s) - 1)) ELSE s
Strip(s) == LStrip(RStrip(s))

\* str.startswith
StartsWith(s, p) == Len(s) >= Len(p) /\ SubSeq(s, 1, Len(p)) = p

\* "tok in line"
Contains(line, tok) == \E i \in 1..Len(line) : line[i] = tok

\* str(n) of a natural number: its decimal digits
Digit(d) == CASE d = 0 -> "0" [] d = 1 -> "1" [] d = 2 -> "2" [] d = 3 -> "3"
              [] d = 4 -> "4" [] d = 5 -> "5" [] d = 6 -> "6" [] d = 7 -> "7"
              [] d = 8 -> "8" [] d = 9 -> "9"
RECURSIVE Str(_)
Str(n) == IF n < 10 THEN <<Digit(n)>> ELSE Append(Str(n \div 10), Digit(n % 10))

\* len() in bytes of a token
TokLen(t) ==
    CASE t = "css chunk" -> CHUNK
      [] t = "css tail" -> 1000
      [] t = "<script>let localCount = " -> 60
      [] t = "; poll /status, /table_rows</script>" -> 700
      [] t = "HTTP/1.1 403 Forbidden\r\n\r\n" -> 26
      [] t = "HTTP/1.1 429 Too Many Requests\r\n\r\n" -> 34
      [] t = "HTTP/1.1 405 Method Not Allowed\r\n\r\n" -> 35
      [] t = "HTTP/1.1 200 OK\r\nContent-Type: text/plain\r\n\r\n" -> 45
      [] t = "HTTP/1.1 200 OK\r\nContent-Type: text/html\r\n\r\n" -> 44
      [] t = "<table border='1' cellpadding='6'>\n" -> 35
      [] t = "<h1>Error: index.html not found</h1>" -> 36
      [] t = "Time since boot (mm:ss:msms)" -> 28
      [] t = "</tr></thead><tbody>\n" -> 21
      [] t = "</tbody></table>" -> 16
      [] t = "<thead><tr>" -> 11
      [] OTHER -> 5
RECURSIVE ByteLen(_)
ByteLen(s) == IF s = <<>> THEN 0 ELSE TokLen(Head(s)) + ByteLen(Tail(s))

\* ------------------------------------------------------------------ state
VARIABLES
    \* CSV_Interface
    file,          \* content of the file on storage
    lock,          \* holder of CSV_Interface.lock: Free, Producer or Task(slot)
    impact_count,  \* CSV_Interface.impact_count
    ppc,           \* where the producer thread is inside write_row
    prow,          \* the row of the write_row call in progress
    pline,         \* the part of its line not yet written
    appended,      \* history: rows of the write_row calls that returned
    lost,          \* history: rows of the write_row calls that raised
    prior          \* history: content of the file before CSV_Interface(filename)

logVars == <<file, lock, impact_count, ppc, prow, pline, appended, lost, prior>>

\* ------------------------------------------------------------ server state
VARIABLES
    clock,         \* milliseconds since boot, as the hardware counts them
    nticks,        \* advances of the clock made so far
    CLIENT_HITS,   \* webserver.CLIENT_HITS: ip -> ticks of its window
    allHits,       \* history: ip -> clock of every rate_limited(ip) call
    active,        \* the task running on the server thread, 0 when none
    conn           \* per slot: the connection and its handle_client task

srvVars == <<clock, nticks, CLIENT_HITS, allHits, active, conn>>
vars == <<logVars, srvVars>>

Free == <<"free">>
Producer == <<"producer">>
Task(c) == <<"task", c>>
Rows == { <<"00:01:23", "2.70g">>, <<"00:02:00", "4.10g">> }
FaultRows == { <<"00:01:23", "2.70g">> }

\* ---------------------------------------------------------- CSV_Interface
\* write_row: line = ','.join(str(item) for item in row) + '\n'
RowLineNoNewline(row) == Join(row, ",")
RowLine(row) == Join(row, ",") \o <<"\n">>

\* _thread lock: acquire blocks until the lock is free
LockFreeIgnored(l) == TRUE
LockFree(l) == l = Free

\* the file after construction: os.remove, then write_row(header)
InitLog ==
    /\ file = RowLine(HEADER)
    /\ lock = Free
    /\ impact_count = 0
    /\ ppc = "idle"
    /\ prow = <<>>
    /\ pline = <<>>
    /\ appended = <<>>
    /\ lost = <<>>
    /\ prior = <<>>

\* what storage may hold when the program starts: no file, a log of an
\* earlier run, a log cut off in the middle of a record, a file of another kind
PriorFiles ==
    { <<>>,
      RowLine(HEADER),
      RowLine(HEADER) \o RowLine(<<"00:01:23", "2.70g">>),
      RowLine(HEADER) \o <<"00:02:00", ",">>,
      <<"boot.log", "\n">> }

\* before CSV_Interface(filename): the object does not exist yet
InitBoot ==
    /\ file \in PriorFiles
    /\ prior = file
    /\ lock = Free
    /\ impact_count = -1
    /\ ppc = "boot"
    /\ prow = <<>>
    /\ pline = <<>>
    /\ appended = <<>>
    /\ lost = <<>>

\* os.remove(filename), OSError (no such file) swallowed: no file either way
os_remove_kept(f) == f
os_remove(f) == <<>>

\* CSV_Interface.__init__: the lock, impact_count = 0, os.remove, then
\* write_row(header), which opens the file for append and so creates it
CSV_Interface_init ==
    /\ ppc = "boot"
    /\ lock' = Free
    /\ impact_count' = 0
    /\ file' = os_remove(file) \o RowLine(HEADER)
    /\ ppc' = "idle"
    /\ UNCHANGED <<prow, pline, appended, lost, prior, srvVars>>

\* write_row, `with self.lock` entered; open(filename, 'a')
write_row_acquire(row) ==
    /\ ppc = "idle"
    /\ Len(appended) + Len(lost) < MaxAppends
    /\ LockFree(lock)
    /\ lock' = Producer
    /\ prow' = row
    /\ pline' = RowLine(row)
    /\ ppc' = "writing"
    /\ UNCHANGED <<file, impact_count, appended, lost, prior, srvVars>>

\* file.write(line): the bytes reach the file one piece after another; the
\* file was opened with mode 'a', so they go to its end
write_row_truncates ==
    /\ ppc = "writing"
    /\ pline # <<>>
    /\ file' = <<Head(pline)>>
    /\ pline' = Tail(pline)
    /\ UNCHANGED <<lock, impact_count, ppc, prow, appended, lost, prior, srvVars>>
write_row_write ==
    /\ ppc = "writing"
    /\ pline # <<>>
    /\ file' = Append(file, Head(pline))
    /\ pline' = Tail(pline)
    /\ UNCHANGED <<lock, impact_count, ppc, prow, appended, lost, prior, srvVars>>

\* file.flush(); file.close(); the lock released on leaving `with`
write_row_close_keeps_lock ==
    /\ ppc = "writing"
    /\ pline = <<>>
    /\ ppc' = "idle"
    /\ appended' = Append(appended, prow)
    /\ prow' = <<>>
    /\ UNCHANGED <<file, lock, impact_count, pline, lost, prior, srvVars>>
write_row_close ==
    /\ ppc = "writing"
    /\ pline = <<>>
    /\ lock' = Free
    /\ ppc' = "idle"
    /\ appended' = Append(appended, prow)
    /\ prow' = <<>>
    /\ UNCHANGED <<file, impact_count, pline, lost, prior, srvVars>>

\* leaving `with self.lock`, by return or by exception, releases the lock
WithExitHeld(l) == l
WithExit(l) == Free

\* open, file.write or file.flush raises OSError: the exception leaves
\* write_row through `with`; what reached the file so far stays there
write_row_fails ==
    /\ ppc = "writing"
    /\ lock' = WithExit(lock)
    /\ ppc' = "raised"
    /\ pline' = <<>>
    /\ UNCHANGED <<file, impact_count, prow, appended, lost, prior, srvVars>>

\* the producer takes the failure as "alert not recorded" and goes on with
\* its loop
producer_continues ==
    /\ ppc = "raised"
    /\ ppc' = "idle"
    /\ lost' = Append(lost, prow)
    /\ prow' = <<>>
    /\ UNCHANGED <<file, lock, impact_count, pline, appended, prior, srvVars>>

\* the slots of connection tasks: SpecTasks runs two tasks at once, the other
\* specifications one
Slots == {1, 2}

\* peers: (ip, port) tuples; the empty tuple is an absent peername
NoPeer == <<>>
IpHome == <<"192", ".", "168", ".", "4", ".", "7">>
IpFar == <<"192", ".", "168", ".", "40", ".", "7">>
IpDesk == <<"192", ".", "168", ".", "4", ".", "9">>
Peers == {NoPeer, <<IpHome, 80>>, <<IpFar, 80>>}
FwPeers == {<<IpHome, 80>>, <<IpFar, 80>>}

\* what a client sends: the request line, then header lines
CRLF == <<"\r\n">>
ReqLine(m, p) == <<m, " ", p, " ", "HTTP/1.1", "\r\n">>
HostHdr == <<"Host: pico", "\r\n">>
Inputs ==
    { <<ReqLine("GET", "/"), HostHdr, CRLF>>,
      <<ReqLine("GET", "/status"), CRLF>>,
      <<ReqLine("GET", "/table_rows"), HostHdr>>,
      <<ReqLine("GET", "/secret"), CRLF>>,
      <<ReqLine("POST", "/status"), CRLF>>,
      <<ReqLine("POST", "/secret"), CRLF>>,
      << <<"GET", " ", "/status", "\r\n">>, CRLF >>,
      << CRLF >>,
      <<>> }
\* the requests of SpecFirewall: every way past, and into, the filters
FwInputs ==
    { <<ReqLine("GET", "/status"), CRLF>>,
      <<ReqLine("GET", "/"), CRLF>>,
      <<ReqLine("GET", "/secret"), CRLF>>,
      <<ReqLine("POST", "/secret"), HostHdr, CRLF>>,
      << <<"GET", " ", "/status", "\r\n">>, CRLF >>,
      << CRLF >>,
      <<>> }

FaultInputs ==
    { <<ReqLine("GET", "/"), CRLF>>,
      <<ReqLine("GET", "/table_rows"), CRLF>> }

TaskInputs ==
    { <<ReqLine("GET", "/"), CRLF>>,
      <<ReqLine("GET", "/table_rows"), CRLF>>,
      <<ReqLine("GET", "/status"), CRLF>>,
      <<>> }

WindowInputs ==
    { <<ReqLine("GET", "/status"), CRLF>>,
      <<>> }

S403 == "HTTP/1.1 403 Forbidden\r\n\r\n"
S429 == "HTTP/1.1 429 Too Many Requests\r\n\r\n"
S405 == "HTTP/1.1 405 Method Not Allowed\r\n\r\n"
S200Plain == "HTTP/1.1 200 OK\r\nContent-Type: text/plain\r\n\r\n"
S200Html == "HTTP/1.1 200 OK\r\nContent-Type: text/html\r\n\r\n"
ErrNoIndex == "<h1>Error: index.html not found</h1>"

\* webserver/index.html and webserver/style.css, as the renderer reads them
CSS_PLACEHOLDER == "{{CSS_PLACEHOLDER}}"
TABLE_PLACEHOLDER == "{{TABLE_PLACEHOLDER}}"
INDEX_HTML ==
    << <<"<html><head><style>", "\n">>,
       <<"  ", CSS_PLACEHOLDER, "\n">>,
       <<"</style></head><body>", "\n">>,
       <<"  ", TABLE_PLACEHOLDER, "\n">>,
       <<"</body></html>", "\n">> >>
STYLE_CSS == <<"css chunk", "css tail">>

\* the steps a task still has to run, in order
W(data) == [op |-> "write", data |-> data]
Op(name) == [op |-> name, data |-> <<>>]

\* ---------------------------------------------------------- AccessControl
\* ip_allowed(peer)
ip_allowed_any(peer) == peer # NoPeer
ip_allowed(peer) ==
    IF peer = NoPeer THEN FALSE ELSE StartsWith(peer[1], ALLOWED_SUBNET)

\* utime.ticks_ms(), utime.ticks_diff(a, b)
ticks_ms == clock % TICKS_PERIOD
ticks_diff(a, b) == ((a - b + TICKS_HALF) % TICKS_PERIOD) - TICKS_HALF

\* CLIENT_HITS.get(ip, [])
hits_get(H, ip) == IF ip \in DOMAIN H THEN H[ip] ELSE <<>>

\* rate_limited(ip): the window it stores, and the answer it returns
rate_limited_hits_unless_full(H, ip, now) ==
    LET fresh(t) == ticks_diff(now, t) < WINDOW_MS
        hits == SelectSeq(hits_get(H, ip), fresh)
    IN  IF Len(hits) >= MAX_REQUESTS THEN hits ELSE Append(hits, now)
rate_limited_hits_lost(H, ip, now) ==
    LET fresh(t) == ticks_diff(now, t) < WINDOW_MS
        hits == hits_get(H, ip)
        stale == SubSeq(hits, 1, Len(hits) - 1)
    IN  Append(SelectSeq(stale, fresh), now)
rate_limited_hits(H, ip, now) ==
    LET fresh(t) == ticks_diff(now, t) < WINDOW_MS
    IN  Append(SelectSeq(hits_get(H, ip), fresh), now)
rate_limited(hits) == Len(hits) > MAX_REQUESTS

\* d[k] = v on a dict
DictSet(H, k, v) == [x \in DOMAIN H \cup {k} |-> IF x = k THEN v ELSE H[x]]

\* ------------------------------------------------------ StreamingRenderer
\* rows = [line.strip() for line in lines if line.strip()]
RECURSIVE StrippedRows(_)
StrippedRows(lines) ==
    IF lines = <<>> THEN <<>>
    ELSE IF Strip(Head(lines)) = <<>> THEN StrippedRows(Tail(lines))
    ELSE <<Strip(Head(lines))>> \o StrippedRows(Tail(lines))

Cells(tag, etag, cols) == [j \in 1..Len(cols) |-> W(<<tag>> \o cols[j] \o <<etag>>)]

\* one body row: <tr>, a <td> per column, </tr>
BodyRow(line) ==
    <<W(<<"<tr>">>)>> \o Cells("<td>", "</td>", Split(line, ",")) \o <<W(<<"</tr>\n">>)>>

\* the header row: <thead><tr>, a <th> per column, </tr></thead><tbody>
HeadRow(line) ==
    <<W(<<"<thead><tr>">>)>> \o Cells("<th>", "</th>", Split(line, ","))
        \o <<W(<<"</tr></thead><tbody>\n">>)>>

\* stream_rows_only(buf_writer, csv_data): the writes it makes
stream_rows_only_all(csv_data) ==
    IF csv_data = <<>> THEN <<>>
    ELSE LET rows == StrippedRows(Split(csv_data, "\n"))
         IN  Flatten([i \in 1..Len(rows) |-> BodyRow(rows[i])])
stream_rows_only(csv_data) ==
    IF csv_data = <<>> THEN <<>>
    ELSE LET rows == StrippedRows(Split(csv_data, "\n"))
         IN  IF Len(rows) > 1
             THEN Flatten([i \in 1..(Len(rows) - 1) |-> BodyRow(rows[i + 1])])
             ELSE <<>>

\* the loop of stream_full_table over the lines, is_header carried along
RECURSIVE TableLines(_, _)
TableLines(lines, is_header) ==
    IF lines = <<>> THEN <<>>
    ELSE IF Strip(Head(lines)) = <<>> THEN TableLines(Tail(lines), is_header)
    ELSE IF is_header
         THEN HeadRow(Strip(Head(lines))) \o TableLines(Tail(lines), FALSE)
         ELSE BodyRow(Strip(Head(lines))) \o TableLines(Tail(lines), FALSE)

\* stream_full_table(buf_writer, csv_data): the writes it makes
stream_full_table_stuck(csv_data) ==
    IF csv_data = <<>> THEN <<>>
    ELSE <<W(<<"<table border='1' cellpadding='6'>\n">>)>>
         \o HeadRow(Strip(Head(Split(csv_data, "\n"))))
         \o <<W(<<"</tbody></table>">>)>>
stream_full_table(csv_data) ==
    IF csv_data = <<>> THEN <<>>
    ELSE <<W(<<"<table border='1' cellpadding='6'>\n">>)>>
         \o TableLines(Split(csv_data, "\n"), TRUE)
         \o <<W(<<"</tbody></table>">>)>>

\* stream_file(buf_writer, filename): a write per chunk, OSError swallowed
stream_file(chunks) ==
    <<Op("try_file")>> \o [i \in 1..Len(chunks) |-> W(<<chunks[i]>>)] \o <<Op("end_file")>>

\* the body of `for line in f` in the "/" route
TemplateLine(line) ==
    IF Contains(line, CSS_PLACEHOLDER) THEN stream_file(STYLE_CSS)
    ELSE IF Contains(line, TABLE_PLACEHOLDER) THEN <<Op("table")>>
    ELSE <<W(line)>>

js_script_ahead(page_load_count) ==
    <<"<script>let localCount = ">> \o Str(page_load_count + 1)
        \o <<"; poll /status, /table_rows</script>">>
js_script(page_load_count) ==
    <<"<script>let localCount = ">> \o Str(page_load_count)
        \o <<"; poll /status, /table_rows</script>">>


\* ------------------------------------------------------------- connections
\* a slot with no connection, and a connection just accepted:
\* buf_writer = BufferedWriter(writer), nothing read or written yet
NewConn(pc, peer, input) ==
    [pc |-> pc,            \* where the task is suspended or running
     peer |-> peer,        \* writer.get_extra_info("peername")
     input |-> input,      \* lines the client sends, not yet read
     request |-> input,    \* history: the lines the client sends
     method |-> <<>>,
     path |-> <<>>,
     buffer |-> <<>>,      \* BufferedWriter.buffer
     out_buf |-> <<>>,     \* bytes handed to writer.write and not yet drained
     sent |-> <<>>,        \* bytes the client has received
     written |-> <<>>,     \* history: the data of every buf_writer.write
     todo |-> <<>>,        \* the steps the task still has to run
     tries |-> <<>>,       \* the try blocks that enclose the running step
     broken |-> FALSE,     \* the peer has reset the connection
     closes |-> 0,         \* calls of writer.close()
     csv_data |-> <<>>,    \* the last get_content() result
     reads |-> 0,          \* calls of get_content()
     snapN |-> 0,          \* history: completed appends when csv_data was read
     countN |-> 0,         \* history: completed appends when impact_count was read
     calls |-> <<>>,       \* history: the calls SpecWriter made on the BufferedWriter
     verdict |-> "none",   \* history: what rate_limited(ip) returned
     hitAt |-> 0,          \* history: index of that call in allHits[ip]
     raised |-> "none",    \* history: the last exception get_content or readline raised
     lines |-> 0,          \* history: readline() calls that returned
     consumed |-> FALSE,   \* history: the header loop has ended
     pending |-> "none",   \* the exception no handler of handle_client caught
     escaped |-> FALSE]    \* history: an exception left handle_client

InitServer ==
    /\ clock = 0
    /\ nticks = 0
    /\ CLIENT_HITS = <<>>
    /\ allHits = <<>>
    /\ active = 0
    /\ conn = [c \in Slots |-> NewConn("idle", NoPeer, <<>>)]

Init == InitLog /\ InitServer

Set(c, r) == conn' = [conn EXCEPT ![c] = r]

\* run_server: start_server accepts a connection and creates its task.
\* The connection arrives `d` ms after the one before it; only the first step
\* of its task (rate_limited) reads the clock.
\* The run is bounded by the connections it accepts from allowed peers, the
\* only ones that leave a trace in the server's state.
RECURSIVE SumLen(_, _)
SumLen(H, ks) ==
    IF ks = {} THEN 0
    ELSE LET k == CHOOSE x \in ks : TRUE IN Len(H[k]) + SumLen(H, ks \ {k})
HitsSoFar == SumLen(allHits, DOMAIN allHits)
Pending == Cardinality({c \in Slots : conn[c].pc = "start" /\ ip_allowed(conn[c].peer)})
NoDelay == {0}
Delays == {0, 1000, WINDOW_MS, TICKS_HALF}
Accept(c, max, peers, inputs, delays) ==
    /\ conn[c].pc \in {"idle", "done"}
    /\ \E d \in delays :
         /\ d > 0 => nticks < MaxTicks
         /\ clock' = clock + d
         /\ nticks' = IF d > 0 THEN nticks + 1 ELSE nticks
    /\ \E p \in peers, inp \in inputs :
         /\ ip_allowed(p) => HitsSoFar + Pending < max
         /\ Set(c, NewConn("start", p, inp))
    /\ UNCHANGED <<logVars, CLIENT_HITS, allHits, active>>

\* the peer resets the connection: every later drain of pending bytes fails
PeerReset(c) ==
    /\ conn[c].pc \notin {"idle", "done"}
    /\ ~conn[c].broken
    /\ Set(c, [conn[c] EXCEPT !.broken = TRUE])
    /\ UNCHANGED <<logVars, clock, nticks, CLIENT_HITS, allHits, active>>

Reject(status) == <<W(<<status>>), Op("flush")>>

\* handle_client up to its first await: IP filter, then rate limit
Start(c) ==
    LET k == conn[c]
        ip == IF k.peer # NoPeer THEN k.peer[1] ELSE <<"unknown">>
        hits == rate_limited_hits(CLIENT_HITS, ip, ticks_ms)
        seen == Append(hits_get(allHits, ip), clock)
    IN
    /\ k.pc = "start"
    /\ active = 0
    /\ IF ~ip_allowed(k.peer)
       THEN /\ Set(c, [k EXCEPT !.pc = "run", !.todo = Reject(S403)])
            /\ active' = c
            /\ UNCHANGED <<CLIENT_HITS, allHits>>
       ELSE /\ CLIENT_HITS' = DictSet(CLIENT_HITS, ip, hits)
            /\ allHits' = DictSet(allHits, ip, seen)
            /\ IF rate_limited(hits)
               THEN /\ Set(c, [k EXCEPT !.pc = "run", !.todo = Reject(S429),
                                        !.verdict = "limited", !.hitAt = Len(seen)])
                    /\ active' = c
               ELSE /\ Set(c, [k EXCEPT !.pc = "readline",
                                        !.verdict = "pass", !.hitAt = Len(seen)])
                    /\ active' = 0
    /\ UNCHANGED <<logVars, clock, nticks>>

\* reader.readline(): the next line, b'' at end of stream
NextLine(k) == IF k.input = <<>> THEN <<>> ELSE Head(k.input)
RestInput(k) == IF k.input = <<>> THEN <<>> ELSE Tail(k.input)

\* `if not request_line: return` and `if len(parts) < 3: return`
BadRequestLineTwoParts(request_line, parts) == request_line = <<>> \/ Len(parts) < 2
BadRequestLine(request_line, parts) == request_line = <<>> \/ Len(parts) < 3

\* request_line = await reader.readline(), parsed
ReadRequestLineThenRoute(c) ==
    LET k == conn[c]
        request_line == NextLine(k)
        parts == Split(Strip(request_line), " ")
    IN
    /\ k.pc = "readline"
    /\ active = 0
    /\ IF BadRequestLine(request_line, parts)
       THEN /\ Set(c, [k EXCEPT !.pc = "finally", !.input = RestInput(k),
                                !.lines = k.lines + 1])
            /\ active' = 0
       ELSE /\ Set(c, [k EXCEPT !.pc = "run", !.input = RestInput(k),
                                !.lines = k.lines + 1,
                                !.method = parts[1], !.path = parts[2],
                                !.todo = Reject(S405)])
            /\ active' = c
    /\ UNCHANGED <<logVars, clock, nticks, CLIENT_HITS, allHits>>
ReadRequestLine(c) ==
    LET k == conn[c]
        request_line == NextLine(k)
        parts == Split(Strip(request_line), " ")
    IN
    /\ k.pc = "readline"
    /\ active = 0
    /\ IF BadRequestLine(request_line, parts)
       THEN Set(c, [k EXCEPT !.pc = "finally", !.input = RestInput(k),
                             !.lines = k.lines + 1])
       ELSE Set(c, [k EXCEPT !.pc = "headers", !.input = RestInput(k),
                             !.lines = k.lines + 1,
                             !.method = parts[1], !.path = parts[2]])
    /\ UNCHANGED <<logVars, clock, nticks, CLIENT_HITS, allHits, active>>

\* the "/" route: the page, or the error text when index.html cannot be opened
PageSteps(count, index_ok) ==
    IF index_ok
    THEN <<W(<<S200Html>>), Op("try_page")>>
         \o Flatten([i \in 1..Len(INDEX_HTML) |-> TemplateLine(INDEX_HTML[i])])
         \o <<W(js_script(count)), Op("end_page"), Op("flush")>>
    ELSE <<W(<<S200Html>>), W(<<ErrNoIndex>>), Op("flush")>>

\* method filter, path allow-list, then the route
RouteMethodSkipped(method, path, count, index_ok) ==
    IF path \notin ALLOWED_PATHS THEN Reject(S403)
    ELSE IF method # <<"GET">> THEN Reject(S405)
    ELSE IF path = <<"/status">>
    THEN <<W(<<S200Plain>>), W(Str(count)), Op("flush")>>
    ELSE IF path = <<"/table_rows">>
    THEN <<W(<<S200Html>>), Op("rows"), Op("flush")>>
    ELSE PageSteps(count, index_ok)
Route(method, path, count, index_ok) ==
    IF method # <<"GET">> THEN Reject(S405)
    ELSE IF path \notin ALLOWED_PATHS THEN Reject(S403)
    ELSE IF path = <<"/status">>
    THEN <<W(<<S200Plain>>), W(Str(count)), Op("flush")>>
    ELSE IF path = <<"/table_rows">>
    THEN <<W(<<S200Html>>), Op("rows"), Op("flush")>>
    ELSE PageSteps(count, index_ok)

\* header = await reader.readline(); after the last one, filters and route
ReadHeader(c) ==
    LET k == conn[c]
        header == NextLine(k)
    IN
    /\ k.pc = "headers"
    /\ active = 0
    /\ IF header = <<"\r\n">> \/ header = <<"\n">> \/ header = <<>>
       THEN /\ \E index_ok \in BOOLEAN :
                 Set(c, [k EXCEPT !.pc = "run", !.input = RestInput(k),
                           !.lines = k.lines + 1, !.consumed = TRUE,
                           !.countN = Len(appended),
                           !.todo = Route(k.method, k.path, impact_count, index_ok)])
            /\ active' = c
       ELSE /\ Set(c, [k EXCEPT !.input = RestInput(k), !.lines = k.lines + 1])
            /\ active' = 0
    /\ UNCHANGED <<logVars, clock, nticks, CLIENT_HITS, allHits>>


\* ---------------------------------------------------------- BufferedWriter
\* the task runs off the end of handle_client's try block, or returns from it
Return(c) ==
    LET k == conn[c] IN
    /\ k.pc = "run" /\ active = c
    /\ k.todo = <<>>
    /\ Set(c, [k EXCEPT !.pc = "finally"])
    /\ active' = 0
    /\ UNCHANGED <<logVars, clock, nticks, CLIENT_HITS, allHits>>

\* `if len(self.buffer) >= self.size`
ReachedSizeStrictly(n) == n > BUF_SIZE
ReachedSize(n) == n >= BUF_SIZE

\* BufferedWriter.write(data): extend the buffer, flush at the threshold
BufferedWrite(c) ==
    LET k == conn[c]
        data == Head(k.todo).data
        buffer == k.buffer \o data
    IN
    /\ k.pc = "run" /\ active = c
    /\ k.todo # <<>> /\ Head(k.todo).op = "write"
    /\ IF ReachedSize(ByteLen(buffer)) /\ buffer # <<>>
       THEN /\ Set(c, [k EXCEPT !.pc = "drain", !.todo = Tail(k.todo),
                                !.written = k.written \o data,
                                !.buffer = buffer,
                                !.out_buf = k.out_buf \o buffer])
            /\ active' = 0
       ELSE /\ Set(c, [k EXCEPT !.todo = Tail(k.todo),
                                !.written = k.written \o data,
                                !.buffer = buffer])
            /\ active' = c
    /\ UNCHANGED <<logVars, clock, nticks, CLIENT_HITS, allHits>>

\* BufferedWriter.flush(): writer.write(buffer), then await writer.drain()
BufferedFlush(c) ==
    LET k == conn[c] IN
    /\ k.pc = "run" /\ active = c
    /\ k.todo # <<>> /\ Head(k.todo).op = "flush"
    /\ IF k.buffer # <<>>
       THEN /\ Set(c, [k EXCEPT !.pc = "drain", !.todo = Tail(k.todo),
                                !.out_buf = k.out_buf \o k.buffer])
            /\ active' = 0
       ELSE /\ Set(c, [k EXCEPT !.todo = Tail(k.todo)])
            /\ active' = c
    /\ UNCHANGED <<logVars, clock, nticks, CLIENT_HITS, allHits>>

\* a `try:` entered or left without an exception
TryBlock(c) ==
    LET k == conn[c]
        op == Head(k.todo).op
    IN
    /\ k.pc = "run" /\ active = c
    /\ k.todo # <<>> /\ op \in {"try_page", "try_file", "end_page", "end_file"}
    /\ Set(c, [k EXCEPT !.todo = Tail(k.todo),
                        !.tries = IF op \in {"try_page", "try_file"}
                                  THEN Append(k.tries, op)
                                  ELSE SubSeq(k.tries, 1, Len(k.tries) - 1)])
    /\ UNCHANGED <<logVars, clock, nticks, CLIENT_HITS, allHits, active>>

\* drain() completes: the bytes are with the client, flush() clears the buffer
Drain(c) ==
    LET k == conn[c] IN
    /\ k.pc = "drain" /\ active = 0
    /\ ~k.broken
    /\ Set(c, [k EXCEPT !.pc = "run", !.sent = k.sent \o k.out_buf,
                        !.out_buf = <<>>, !.buffer = <<>>])
    /\ active' = c
    /\ UNCHANGED <<logVars, clock, nticks, CLIENT_HITS, allHits>>

\* the steps after the first step named `name`
RECURSIVE After(_, _)
After(todo, name) ==
    IF todo = <<>> THEN <<>>
    ELSE IF Head(todo).op = name THEN Tail(todo)
    ELSE After(Tail(todo), name)

\* drain() raises OSError: the innermost enclosing handler takes it.
\* stream_file: `except OSError: pass`; the "/" route: `except OSError:` writes
\* the error text; otherwise `except Exception` of handle_client, then finally
DrainFails(c) ==
    LET k == conn[c]
        top == IF k.tries = <<>> THEN "none" ELSE k.tries[Len(k.tries)]
        outer == SubSeq(k.tries, 1, Len(k.tries) - 1)
    IN
    /\ k.pc = "drain" /\ active = 0
    /\ k.broken
    /\ IF top = "try_file"
       THEN /\ Set(c, [k EXCEPT !.pc = "run", !.tries = outer,
                                !.todo = After(k.todo, "end_file")])
            /\ active' = c
       ELSE IF top = "try_page"
       THEN /\ Set(c, [k EXCEPT !.pc = "run", !.tries = outer,
                        !.todo = <<W(<<ErrNoIndex>>)>> \o After(k.todo, "end_page")])
            /\ active' = c
       ELSE /\ Set(c, [k EXCEPT !.pc = "finally", !.todo = <<>>])
            /\ active' = 0
    /\ UNCHANGED <<logVars, clock, nticks, CLIENT_HITS, allHits>>

\* ------------------------------------------------------------ get_content
\* `with self.lock` of get_content: the server thread waits for the lock
AcquireForReadNoLock(l) == TRUE
AcquireForRead(l) == l = Free

get_content_acquire(c) ==
    LET k == conn[c] IN
    /\ k.pc = "run" /\ active = c
    /\ k.todo # <<>> /\ Head(k.todo).op \in {"rows", "table"}
    /\ AcquireForRead(lock)
    /\ lock' = Task(c)
    /\ Set(c, [k EXCEPT !.pc = "read"])
    /\ UNCHANGED <<file, impact_count, ppc, prow, pline, appended, lost, prior,
                   clock, nticks, CLIENT_HITS, allHits, active>>

\* file.read() under the lock, the lock released, then the renderer called
Render(op, csv_data) ==
    IF op = "rows" THEN stream_rows_only(csv_data) ELSE stream_full_table(csv_data)

get_content_read(c) ==
    LET k == conn[c] IN
    /\ k.pc = "read" /\ active = c
    /\ lock' = Free
    /\ Set(c, [k EXCEPT !.pc = "run", !.csv_data = file, !.reads = k.reads + 1,
                        !.snapN = Len(appended),
                        !.todo = Render(Head(k.todo).op, file) \o Tail(k.todo)])
    /\ UNCHANGED <<file, impact_count, ppc, prow, pline, appended, lost, prior,
                   clock, nticks, CLIENT_HITS, allHits, active>>

\* ------------------------------------------------------------- exceptions
Errors == {"OSError", "MemoryError"}

\* which `except` clause takes which exception: stream_file and the "/" route
\* have `except OSError`, handle_client has `except Exception`
CatchesOnlyOSError(handler, err) == err = "OSError"
Catches(handler, err) ==
    IF handler = "handle_client" THEN TRUE ELSE err = "OSError"

\* the task after `err` is raised at its running step: the innermost try
\* block whose except clause takes it continues, else handle_client's own
\* `except Exception`, else the exception leaves the task after finally
Unwind(k, err) ==
    LET takers == {i \in 1..Len(k.tries) : Catches(k.tries[i], err)}
        i == CHOOSE j \in takers : \A m \in takers : m <= j
    IN  IF takers = {}
        THEN [k EXCEPT !.pc = "finally", !.raised = err, !.tries = <<>>, !.todo = <<>>,
                       !.pending = IF Catches("handle_client", err) THEN "none" ELSE err]
        ELSE IF k.tries[i] = "try_file"
        THEN [k EXCEPT !.pc = "run", !.raised = err, !.tries = SubSeq(k.tries, 1, i - 1),
                       !.todo = After(k.todo, "end_file")]
        ELSE [k EXCEPT !.pc = "run", !.raised = err, !.tries = SubSeq(k.tries, 1, i - 1),
                       !.todo = <<W(<<ErrNoIndex>>)>> \o After(k.todo, "end_page")]

\* get_content: open or file.read raises (the medium fails, or no memory for
\* the content); `with self.lock` releases the lock on the way out
get_content_fails(c) ==
    LET k == conn[c] IN
    /\ k.pc = "read" /\ active = c
    /\ lock' = WithExit(lock)
    /\ \E err \in Errors :
         LET u == Unwind(k, err) IN
         /\ Set(c, u)
         /\ active' = IF u.pc = "run" THEN c ELSE 0
    /\ UNCHANGED <<file, impact_count, ppc, prow, pline, appended, lost, prior,
                   clock, nticks, CLIENT_HITS, allHits>>

\* reader.readline() raises OSError on a connection the peer has reset
readline_fails(c) ==
    LET k == conn[c] IN
    /\ k.pc \in {"readline", "headers"} /\ active = 0
    /\ k.broken
    /\ Set(c, Unwind(k, "OSError"))
    /\ UNCHANGED <<logVars, clock, nticks, CLIENT_HITS, allHits, active>>

\* ---------------------------------------------------------------- finally
\* finally: try: await writer.drain(); writer.close(); await writer.wait_closed()
\*          except: pass
Finally(c) ==
    LET k == conn[c] IN
    /\ k.pc = "finally" /\ active = 0
    /\ IF k.out_buf # <<>> /\ k.broken
       THEN Set(c, [k EXCEPT !.pc = "done", !.escaped = k.pending # "none"])
       ELSE Set(c, [k EXCEPT !.pc = "done", !.sent = k.sent \o k.out_buf,
                             !.out_buf = <<>>, !.closes = k.closes + 1,
                             !.escaped = k.pending # "none"])
    /\ UNCHANGED <<logVars, clock, nticks, CLIENT_HITS, allHits, active>>

\* ---------------------------------------------------------- specifications
Handler(c) ==
    \/ Start(c) \/ ReadRequestLine(c) \/ ReadHeader(c)
    \/ Return(c) \/ BufferedWrite(c) \/ BufferedFlush(c) \/ TryBlock(c)
    \/ Drain(c) \/ DrainFails(c)
    \/ get_content_acquire(c) \/ get_content_read(c)
    \/ Finally(c) \/ PeerReset(c)

\* the producer thread in parallel with the server, which handles one
\* connection after another, from any peer
Next ==
    \/ \E row \in Rows : write_row_acquire(row)
    \/ write_row_write
    \/ write_row_close
    \/ Accept(1, MaxConns, Peers, Inputs, NoDelay)
    \/ Handler(1)

Spec == Init /\ [][Next]_vars

\* the server alone, one connection after another
NextFirewall ==
    \/ Accept(1, MaxFwConns, FwPeers, FwInputs, Delays)
    \/ Handler(1)

SpecFirewall == Init /\ [][NextFirewall]_vars

\* the program from its start: the log is constructed over what storage
\* holds, then the producer and the server run
InitAtBoot == InitBoot /\ InitServer

NextBoot ==
    \/ CSV_Interface_init
    \/ \E row \in Rows : write_row_acquire(row)
    \/ write_row_write
    \/ write_row_close
    \/ ppc # "boot" /\ Accept(1, MaxFaultConns, {<<IpHome, 80>>}, FaultInputs, NoDelay)
    \/ Handler(1)

SpecBoot == InitAtBoot /\ [][NextBoot]_vars

\* a BufferedWriter on its own, over a sink that may fail: any sequence of
\* write and flush calls, by a caller that may swallow OSError as stream_file
\* does
Chunks == { <<>>, <<"</tr>\n">>, <<"css chunk">>, <<"css tail">>, <<"css chunk", "css chunk">> }
WriterCalls == {W(d) : d \in Chunks} \cup {Op("flush"), Op("try_file")}

InitWriter ==
    /\ InitLog
    /\ clock = 0
    /\ nticks = 0
    /\ CLIENT_HITS = <<>>
    /\ allHits = <<>>
    /\ active = 1
    /\ conn = [c \in Slots |-> IF c = 1 THEN NewConn("run", <<IpHome, 80>>, <<>>)
                                      ELSE NewConn("idle", NoPeer, <<>>)]

writer_call(c) ==
    LET k == conn[c] IN
    /\ k.pc = "run" /\ active = c
    /\ k.todo = <<>>
    /\ Len(k.calls) < MaxCalls
    /\ \E call \in WriterCalls :
         Set(c, [k EXCEPT !.todo = <<call>>, !.calls = Append(k.calls, call.op)])
    /\ UNCHANGED <<logVars, clock, nticks, CLIENT_HITS, allHits, active>>

NextWriter ==
    \/ writer_call(1)
    \/ BufferedWrite(1)
    \/ BufferedFlush(1)
    \/ TryBlock(1)
    \/ Drain(1)
    \/ DrainFails(1)
    \/ PeerReset(1)

SpecWriter == InitWriter /\ [][NextWriter]_vars

\* the producer and the server with a storage medium and a network that fail
NextFaults ==
    \/ \E row \in FaultRows : write_row_acquire(row)
    \/ write_row_write
    \/ write_row_close
    \/ write_row_fails
    \/ producer_continues
    \/ Accept(1, MaxFaultConns, {<<IpHome, 80>>}, FaultInputs, NoDelay)
    \/ Handler(1)
    \/ get_content_fails(1)
    \/ readline_fails(1)

SpecFaults == Init /\ [][NextFaults]_vars

\* the server with two connections open at once: their tasks take turns at
\* the awaits, and any of them may fail
NextTasks ==
    \E c \in Slots :
        \/ Accept(c, MaxTaskConns, {<<IpHome, 80>>}, TaskInputs, NoDelay)
        \/ Handler(c)
        \/ get_content_fails(c)
        \/ readline_fails(c)

SpecTasks == Init /\ [][NextTasks]_vars

\* the server with two connections open at once, from two allowed clients
\* that stay connected and ask for /status or send nothing: the tasks take
\* turns at every await
NextWindows ==
    \E c \in Slots :
        \/ Accept(c, MaxWindowConns, {<<IpHome, 80>>, <<IpDesk, 80>>}, WindowInputs, NoDelay)
        \/ Start(c) \/ ReadRequestLine(c) \/ ReadHeader(c)
        \/ BufferedWrite(c) \/ BufferedFlush(c) \/ Drain(c)
        \/ Return(c) \/ Finally(c)

SpecWindows == Init /\ [][NextWindows]_vars

\* the producer and the server under fair scheduling. The scheduler runs a
\* task that can run, a read or a drain on the network returns or raises, and
\* a blocked lock.acquire() goes on once the lock stays free: weak fairness on
\* the steps of the task. The producer thread, once inside write_row, runs to
\* the end of it: weak fairness on its steps under the lock. Nothing obliges
\* a client to connect, the peer to reset, or the producer to append again.
TaskStep(c) ==
    \/ Start(c) \/ ReadRequestLine(c) \/ ReadHeader(c)
    \/ Return(c) \/ BufferedWrite(c) \/ BufferedFlush(c) \/ TryBlock(c)
    \/ Drain(c) \/ DrainFails(c)
    \/ get_content_acquire(c) \/ get_content_read(c)
    \/ Finally(c)
    \/ get_content_fails(c) \/ readline_fails(c)

ProducerInside == write_row_write \/ write_row_close

NextLive ==
    \/ Len(appended) < MaxLiveAppends /\ \E row \in FaultRows : write_row_acquire(row)
    \/ ProducerInside
    \/ Accept(1, MaxLiveConns, {<<IpHome, 80>>}, FaultInputs, NoDelay)
    \/ TaskStep(1)
    \/ PeerReset(1)

SpecLive ==
    /\ Init
    /\ [][NextLive]_vars
    /\ WF_vars(TaskStep(1))
    /\ WF_vars(ProducerInside)


\* ------------------------------------------------------------------ claims
\* what the claims expect, written out independently of the operators above
Last(k) == k.pc = "done"
WellFormed(k) == k.request # <<>> /\ Len(k.request[1]) = 6
ReqMethod(k) == k.request[1][1]
ReqPath(k) == k.request[1][3]
IsGet(k, p) == WellFormed(k) /\ ReqMethod(k) = "GET" /\ ReqPath(k) = p
Allowed(k) == k.peer # NoPeer /\ Len(k.peer[1]) >= 6
                /\ SubSeq(k.peer[1], 1, 6) = <<"192", ".", "168", ".", "4", ".">>

ExpectedText(recs) ==
    Flatten([i \in 1..Len(recs) |-> <<recs[i][1], ",", recs[i][2], "\n">>])
ExpectedRows(recs) ==
    Flatten([i \in 1..Len(recs) |->
        <<"<tr>", "<td>", recs[i][1], "</td>", "<td>", recs[i][2], "</td>", "</tr>\n">>])
ExpectedTable(recs) ==
    <<"<table border='1' cellpadding='6'>\n", "<thead><tr>",
      "<th>", "Time since boot (mm:ss:msms)", "</th>", "<th>", "G-Force", "</th>",
      "</tr></thead><tbody>\n">>
    \o ExpectedRows(recs) \o <<"</tbody></table>">>
Prefix(recs, n) == SubSeq(recs, 1, n)
Occurrences(s, tok) == Cardinality({i \in 1..Len(s) : s[i] = tok})

\* C1: after N write_row calls that returned, impact_count (what /status
\* reports) is the initial version 0 plus N.
C1_VersionCountsAppends == impact_count = Len(appended)

\* C2: a snapshot returned by get_content after the Nth completed append and
\* before the next is the header line followed by exactly the N appended
\* records, in append order.
C2_SnapshotHoldsAppends ==
    \A c \in Slots :
        conn[c].reads > 0 =>
            conn[c].csv_data =
                ExpectedText(<<HEADER>> \o Prefix(appended, conn[c].snapN))
C2_Witness ==
    \E c \in Slots : conn[c].reads > 0 /\ conn[c].snapN >= 2

\* C3: with the producer appending in parallel, a task reads the file only
\* while no append is in progress, and every snapshot it holds is the header
\* plus the first k records for a k that the count of completed appends had:
\* no partly written record is ever seen.
C3_SnapshotAtomic ==
    \A c \in Slots :
        /\ conn[c].pc = "read" =>
              /\ ppc = "idle"
              /\ file = ExpectedText(<<HEADER>> \o appended)
        /\ conn[c].reads > 0 =>
              \E n \in 0..Len(appended) :
                  conn[c].csv_data = ExpectedText(<<HEADER>> \o Prefix(appended, n))
C3_Witness ==
    \E c \in Slots :
        /\ conn[c].reads > 0 /\ conn[c].pc \in {"run", "drain"}
        /\ ppc = "writing" /\ pline # <<>> /\ Len(pline) < 4

\* C4: a request is answered 429 exactly when more than MAX_REQUESTS requests
\* of its IP, itself included, fall within the WINDOW_MS before it; with at
\* most MAX_REQUESTS of them in the window it is not rate-limited.
InWindow(ip, i) ==
    Cardinality({j \in 1..i : allHits[ip][i] - allHits[ip][j] < WINDOW_MS})
C4_LimitedIffWindowFull ==
    \A c \in Slots :
        LET k == conn[c] IN
        k.verdict # "none" =>
            /\ (k.verdict = "limited") <=> (InWindow(k.peer[1], k.hitAt) > MAX_REQUESTS)
            /\ k.verdict = "limited" /\ k.written # <<>> => k.written = <<S429>>

\* C5: a connection whose peer is absent or outside the allowed prefix is
\* answered 403 and nothing else; rate_limited is never called for it (its
\* steps leave CLIENT_HITS as it was) and get_content is never called.
C5_ForbiddenPeerTouchesNothing ==
    /\ [](\A c \in Slots :
            LET k == conn[c] IN
            k.pc # "idle" /\ ~Allowed(k) =>
                /\ k.verdict = "none" /\ k.reads = 0
                /\ k.pc # "start" => k.written \o Flatten([i \in 1..Len(k.todo) |-> k.todo[i].data]) = <<S403>>
                /\ Last(k) /\ ~k.broken => k.sent = <<S403>>)
    /\ [][\A c \in Slots :
            conn[c].pc \notin {"idle", "done"} /\ ~Allowed(conn[c]) =>
                CLIENT_HITS' = CLIENT_HITS /\ lock' # Task(c)]_vars
C5_Witness ==
    \E c \in Slots :
        /\ Last(conn[c]) /\ conn[c].peer # NoPeer /\ ~Allowed(conn[c])
        /\ IsGet(conn[c], "/table_rows") /\ conn[c].sent = <<S403>>
        /\ CLIENT_HITS # <<>>

\* C6: the status a client is sent is that of the first failing check in the
\* order IP allow-list, rate limit, method, path: 403, else 429, else 405,
\* else 403; a request line that parses and passes all four gets 200.
FirstFailure(k) ==
    IF ~Allowed(k) THEN S403
    ELSE IF k.verdict = "limited" THEN S429
    ELSE IF ReqMethod(k) # "GET" THEN S405
    ELSE IF ReqPath(k) \notin {"/", "/status", "/table_rows"} THEN S403
    ELSE IF ReqPath(k) = "/status" THEN S200Plain ELSE S200Html
C6_FirstFailingCheckDecides ==
    \A c \in Slots :
        LET k == conn[c] IN
        /\ k.written # <<>> => Head(k.written) = FirstFailure(k)
        /\ Last(k) /\ (~Allowed(k) \/ k.verdict = "limited" \/ WellFormed(k))
              => k.written # <<>>
C6_Witness ==
    \E c \in Slots :
        LET k == conn[c] IN
        /\ Last(k) /\ k.verdict = "limited" /\ WellFormed(k)
        /\ ReqMethod(k) = "POST" /\ ReqPath(k) = "/secret"
        /\ k.sent = <<S429>>

\* C7: a rejected connection (403 by subnet or path, 405 by method, 429 by
\* rate) has exactly one status line written and no body, no route handler
\* has run, and once its task has ended the connection has been closed.
Rejected(k) ==
    \/ ~Allowed(k)
    \/ k.verdict = "limited"
    \/ WellFormed(k) /\ (ReqMethod(k) # "GET" \/ ReqPath(k) \notin {"/", "/status", "/table_rows"})
C7_RejectionIsOneStatusLineThenClose ==
    \A c \in Slots :
        LET k == conn[c] IN
        Last(k) /\ Rejected(k) =>
            /\ k.written = <<FirstFailure(k)>>
            /\ k.reads = 0
            /\ k.closes = 1

\* C8: the body of a /table_rows response is one <tr> of <td> cells per
\* record of the snapshot, in log order; it holds no text of the header row,
\* no <thead> and no <table>, and is empty for a log with the header alone.
C8_RowsOnlyBody ==
    \A c \in Slots :
        LET k == conn[c] IN
        IsGet(k, "/table_rows") /\ k.reads > 0 =>
            /\ \A i \in 1..Len(k.written) :
                  k.written[i] \notin {"Time since boot (mm:ss:msms)", "G-Force",
                                       "<thead><tr>", "<table border='1' cellpadding='6'>\n"}
            /\ k.written \o Flatten([i \in 1..Len(k.todo) |-> k.todo[i].data])
                  = <<S200Html>> \o ExpectedRows(Prefix(appended, k.snapN))
            /\ Last(k) /\ ~k.broken
                  => k.sent = <<S200Html>> \o ExpectedRows(Prefix(appended, k.snapN))
C8_Witness ==
    \E c \in Slots :
        /\ Last(conn[c]) /\ ~conn[c].broken /\ IsGet(conn[c], "/table_rows")
        /\ conn[c].snapN >= 2 /\ Len(conn[c].sent) > 1

\* C9: the page of a GET / that was served from the template holds one
\* <table>...</table>: one header row of <th> cells, the first line of the
\* snapshot, then one <tr> per record of the snapshot taken while rendering.
ServedPage(k) ==
    /\ IsGet(k, "/") /\ k.sent # <<>> /\ Head(k.sent) = S200Html
    /\ Occurrences(k.sent, ErrNoIndex) = 0
TableAt(s) == CHOOSE i \in 1..Len(s) : s[i] = "<table border='1' cellpadding='6'>\n"
TableEnd(s) == CHOOSE i \in 1..Len(s) : s[i] = "</tbody></table>"
C9_FullPageTable ==
    \A c \in Slots :
        LET k == conn[c] IN
        Last(k) /\ ~k.broken /\ ServedPage(k) =>
            /\ k.reads = 1
            /\ Occurrences(k.sent, "<table border='1' cellpadding='6'>\n") = 1
            /\ Occurrences(k.sent, "</tbody></table>") = 1
            /\ Occurrences(k.sent, "<thead><tr>") = 1
            /\ SubSeq(k.sent, TableAt(k.sent), TableEnd(k.sent))
                  = ExpectedTable(Prefix(appended, k.snapN))
C9_Witness ==
    \E c \in Slots :
        LET k == conn[c] IN
        /\ Last(k) /\ ~k.broken /\ ServedPage(k)
        /\ k.snapN >= 1 /\ Len(appended) > k.snapN

\* C10: when the task of a connection has ended, by whichever path,
\* writer.close() has been called on the connection, and exactly once.
C10_ClosedExactlyOnce ==
    \A c \in Slots : Last(conn[c]) => conn[c].closes = 1

\* C11: when writer.close() has been called on a connection, by whichever
\* exit path of handle_client, nothing that BufferedWriter.write accepted is
\* still in BufferedWriter.buffer.
C11_FlushedBeforeClose ==
    \A c \in Slots : conn[c].closes >= 1 => conn[c].buffer = <<>>

\* C12: no exception raised while a connection is handled (by a read, a
\* write, the read of the log or rendering) leaves handle_client; the server
\* can still accept; and a connection that met no failure of its own is
\* answered in full and closed, whatever happened to the others.
OwnFailure(k) == k.broken \/ k.raised # "none"
C12_FailureStaysInHandler ==
    /\ \A c \in Slots :
          LET k == conn[c] IN
          /\ ~k.escaped
          /\ k.pc \in {"finally", "done"} => k.pending = "none"
          /\ Last(k) /\ ~OwnFailure(k) =>
                /\ k.closes = 1 /\ k.sent = k.written /\ k.buffer = <<>>
                /\ IsGet(k, "/status") => k.sent = <<S200Plain, "0">>
                /\ IsGet(k, "/table_rows") => k.sent = <<S200Html>>
    /\ (\E c \in Slots : OwnFailure(conn[c])) /\ HitsSoFar + Pending < MaxTaskConns
          => \A c \in Slots :
                conn[c].pc \in {"idle", "done"}
                    => ENABLED Accept(c, MaxTaskConns, {<<IpHome, 80>>}, TaskInputs, NoDelay)
C12_Witness ==
    /\ Last(conn[1]) /\ conn[1].raised = "MemoryError" /\ conn[1].closes = 1
    /\ Last(conn[2]) /\ ~OwnFailure(conn[2]) /\ IsGet(conn[2], "/table_rows")
    /\ conn[2].sent = <<S200Html>>

C14_InitLeavesHeaderOnly ==
    ppc = "idle" /\ lock = Free /\ appended = <<>> /\ lost = <<>> =>
        /\ file = <<"Time since boot (mm:ss:msms)", ",", "G-Force", "\n">>
        /\ impact_count = 0
C14_Witness ==
    /\ ppc = "idle" /\ appended = <<>>
    /\ Len(prior) > 4
    /\ file = <<"Time since boot (mm:ss:msms)", ",", "G-Force", "\n">>

\* C15: once the log is constructed its first line is the header row, and
\* the file only grows at its end: every snapshot a task holds is a prefix of
\* the file from then on, hence of every later snapshot, so no record is
\* changed, reordered or removed.
C15_HeaderFirstAppendOnly ==
    /\ [](ppc # "boot" =>
            /\ StartsWith(file, <<"Time since boot (mm:ss:msms)", ",", "G-Force", "\n">>)
            /\ \A c \in Slots : conn[c].reads > 0 => StartsWith(file, conn[c].csv_data))
    /\ [][ppc # "boot" => StartsWith(file', file)]_vars
C15_Witness ==
    \E c \in Slots :
        /\ conn[c].reads > 0 /\ Len(conn[c].csv_data) > 4
        /\ Len(file) > Len(conn[c].csv_data) + 3
        /\ Len(prior) > 4

\* C16: when the write to storage fails inside write_row, the failure reaches
\* the producer, which goes on; impact_count is not incremented by the failed
\* call, and the lock is released, so that later write_row and get_content
\* calls acquire it.
InCritical == ppc = "writing" \/ \E c \in Slots : conn[c].pc = "read"
C16_FailedAppendReleasesLock ==
    /\ [](/\ ppc = "raised" => lock # Producer
          /\ ~InCritical => lock = Free)
    /\ [][ppc = "writing" /\ ppc' = "raised" =>
            /\ lock' = Free
            /\ impact_count' = impact_count
            /\ appended' = appended]_vars
    /\ [][ppc = "raised" /\ ppc' # "raised" => ppc' = "idle" /\ lost' = Append(lost, prow)]_vars
C16_Witness ==
    /\ Len(lost) = 1 /\ Len(appended) = 1 /\ ppc = "idle"
    /\ file = <<"Time since boot (mm:ss:msms)", ",", "G-Force", "\n", lost[1][1]>>
                  \o <<appended[1][1], ",", appended[1][2], "\n">>
    /\ \E c \in Slots : conn[c].reads > 0 /\ conn[c].csv_data = file

\* C17: a request that passes the four checks is routed by its exact path
\* and answered 200: /status with text/plain and the current version (the
\* number of completed appends) in decimal, /table_rows with text/html and the
\* rows of a snapshot taken for this request, / with text/html and the page;
\* any other path is answered 403 and reaches no route.
Output(k) == k.written \o Flatten([i \in 1..Len(k.todo) |-> k.todo[i].data])
PassedIpAndRate(k) == Allowed(k) /\ k.verdict = "pass" /\ WellFormed(k)
C17_RoutedByExactPath ==
    \A c \in Slots :
        LET k == conn[c] IN
        PassedIpAndRate(k) /\ ReqMethod(k) = "GET" /\ k.written # <<>> =>
            /\ ReqPath(k) = "/status" =>
                  Output(k) = <<S200Plain>> \o Str(k.countN) /\ k.reads = 0
            /\ ReqPath(k) = "/table_rows" =>
                  /\ Head(k.written) = S200Html
                  /\ k.reads > 0 =>
                        /\ k.reads = 1
                        /\ Output(k) = <<S200Html>> \o ExpectedRows(Prefix(appended, k.snapN))
            /\ ReqPath(k) = "/" => Head(k.written) = S200Html /\ k.reads <= 1
            /\ ReqPath(k) \notin {"/", "/status", "/table_rows"} =>
                  Output(k) = <<S403>> /\ k.reads = 0

\* C18: the producer is never between the open and the close of write_row
\* while a task is inside the read of get_content, no two tasks are inside it
\* together, whoever is inside is the holder of the lock, and the lock is free
\* whenever nobody is inside, after a return and after an exception alike.
Readers == {c \in Slots : conn[c].pc = "read"}
C18_LockExclusive ==
    /\ ~(ppc = "writing" /\ Readers # {})
    /\ Cardinality(Readers) <= 1
    /\ ppc = "writing" => lock = Producer
    /\ \A c \in Readers : lock = Task(c)
    /\ ppc # "writing" /\ Readers = {} => lock = Free
C18_Witness ==
    /\ ppc = "writing" /\ lock = Producer /\ Len(lost) >= 1
    /\ \E c \in Slots :
          /\ conn[c].pc = "run" /\ active = c
          /\ conn[c].todo # <<>> /\ Head(conn[c].todo).op = "table"

\* C19: between the calls made on a BufferedWriter, the bytes handed to the
\* sink (drained or not) followed by the bytes in the buffer are the written
\* data in call order, nothing lost, doubled or out of order; and when flush
\* has returned the buffer is empty.
C19_SinkThenBufferIsWritten ==
    /\ [](\A c \in Slots :
            LET k == conn[c] IN
            k.pc = "run" => k.sent \o k.out_buf \o k.buffer = k.written)
    /\ [][\A c \in Slots :
            conn[c].pc = "drain" /\ conn[c]'.pc = "run" /\ conn[c]'.sent # conn[c].sent
                => conn[c]'.buffer = <<>>]_vars

\* C20: when write has returned, the buffer holds fewer than BUF_SIZE
\* bytes: a write that brings it to BUF_SIZE or above flushes all of it;
\* and flush on an empty buffer hands nothing to the sink.
WriteReturns(c) ==
    /\ conn[c]'.pc = "run" /\ Len(conn[c]'.written) >= Len(conn[c].written)
    /\ \/ conn[c].pc = "run" /\ conn[c].todo # <<>> /\ Head(conn[c].todo).op = "write"
       \/ conn[c].pc = "drain" /\ conn[c]'.sent # conn[c].sent
FlushOnEmpty(c) ==
    /\ conn[c].pc = "run" /\ conn[c].todo # <<>> /\ Head(conn[c].todo).op = "flush"
    /\ conn[c].buffer = <<>>
    /\ conn[c]'.todo = Tail(conn[c].todo)
C20_BufferBelowThreshold ==
    /\ [][\A c \in Slots : WriteReturns(c) => ByteLen(conn[c]'.buffer) < BUF_SIZE]_vars
    /\ [][\A c \in Slots : FlushOnEmpty(c) =>
            /\ conn[c]'.out_buf = conn[c].out_buf /\ conn[c]'.sent = conn[c].sent
            /\ conn[c]'.pc = "run"]_vars
    /\ [](\A c \in Slots :
            conn[c].pc = "run" /\ ~conn[c].broken => ByteLen(conn[c].buffer) < BUF_SIZE)
C20_Witness ==
    \E c \in Slots :
        LET k == conn[c] IN
        /\ k.pc = "run" /\ k.todo = <<>> /\ ~k.broken
        /\ k.calls = <<"write", "write", "flush", "write">>
        /\ ByteLen(k.sent) = BUF_SIZE /\ k.buffer = <<"css tail">>

\* C21: every connection that passes the IP filter adds exactly one timestamp,
\* the time of the call, to the window of its IP and to no other, before
\* anything is read from it; no later step of the connection touches the
\* windows; so connections answered 429, 405 or 403 by path, and connections
\* with an empty or malformed request line, are all in the window.
RECURSIVE IsSubSeq(_, _)
IsSubSeq(s, t) ==
    IF s = <<>> THEN TRUE
    ELSE IF t = <<>> THEN FALSE
    ELSE IF Head(s) = Head(t) THEN IsSubSeq(Tail(s), Tail(t))
    ELSE IsSubSeq(s, Tail(t))
WindowOf(H, ip) == IF ip \in DOMAIN H THEN H[ip] ELSE <<>>
PassesIpFilter(c) == conn[c].pc = "start" /\ conn[c]'.pc # "start" /\ Allowed(conn[c])
C21_EveryPassedConnectionCounts ==
    /\ [][\A c \in Slots :
            PassesIpFilter(c) =>
                LET ip == conn[c].peer[1]
                    old == WindowOf(CLIENT_HITS, ip)
                    new == WindowOf(CLIENT_HITS', ip)
                    now == clock % TICKS_PERIOD
                IN  /\ new # <<>> /\ new[Len(new)] = now
                    /\ IsSubSeq(SubSeq(new, 1, Len(new) - 1), old)
                    /\ Occurrences(new, now) = Occurrences(old, now) + 1
                    /\ Len(WindowOf(allHits', ip)) = Len(WindowOf(allHits, ip)) + 1
                    /\ \A x \in DOMAIN CLIENT_HITS' \ {ip} :
                          x \in DOMAIN CLIENT_HITS /\ CLIENT_HITS'[x] = CLIENT_HITS[x]]_vars
    /\ [][(\A c \in Slots : ~PassesIpFilter(c)) => CLIENT_HITS' = CLIENT_HITS]_vars
    /\ [](\A c \in Slots :
            LET k == conn[c] IN
            Allowed(k) /\ k.pc \notin {"idle", "start"} =>
                /\ k.verdict # "none"
                /\ k.hitAt = Len(WindowOf(allHits, k.peer[1]))
                /\ WindowOf(CLIENT_HITS, k.peer[1]) # <<>>)
C21_Witness ==
    \E c \in Slots :
        LET k == conn[c] IN
        /\ Last(k) /\ Allowed(k) /\ k.verdict = "limited" /\ k.request = <<>>
        /\ k.sent = <<S429>>
        /\ k.hitAt = MAX_REQUESTS + 2
        /\ Len(CLIENT_HITS[k.peer[1]]) = MAX_REQUESTS + 2

\* C22: after each rate_limited(ip) call the window of the IP holds only
\* timestamps less than WINDOW_MS older than the call, oldest first, the newest
\* being the time of the call; hence a client that sends nothing for WINDOW_MS
\* is not rate-limited on its next request, whatever it was answered before.
C22_WindowHoldsFreshOnly ==
    /\ \A ip \in DOMAIN CLIENT_HITS :
          LET w == CLIENT_HITS[ip]
              all == allHits[ip]
              n == Len(w)
              now == all[Len(all)]
          IN  /\ n >= 1 /\ n <= Len(all)
              /\ \A i \in 1..n :
                    /\ w[i] = all[Len(all) - n + i] % TICKS_PERIOD
                    /\ now - all[Len(all) - n + i] < WINDOW_MS
              /\ \A i \in 1..(n - 1) : all[Len(all) - n + i] <= all[Len(all) - n + i + 1]
    /\ \A c \in Slots :
          LET k == conn[c] IN
          k.verdict # "none" /\ k.hitAt >= 2 =>
              LET all == allHits[k.peer[1]] IN
              all[k.hitAt] - all[k.hitAt - 1] >= WINDOW_MS => k.verdict = "pass"

\* C23 as stated: the handler goes AwaitRequestLine, AwaitHeaders,
\* AccessCheck, Routed, Streaming, Closed: no access-control check is
\* evaluated (none has given its verdict) and no status line is written or
\* about to be written before the request line has been read and the headers
\* consumed.
C23_ChecksAfterHeaders ==
    \A c \in Slots :
        LET k == conn[c] IN
        k.verdict # "none" \/ k.written # <<>> \/ k.todo # <<>> =>
            k.lines >= 1 /\ k.consumed

\* C23 as amended: the handler goes IP check, rate check, AwaitRequestLine,
\* AwaitHeaders, method and path check, Routed, Streaming, Closed and never
\* back. The IP and rate checks give their verdict, and their 403 or 429 is
\* written, before anything is read; nothing is read from a connection they
\* reject; no 405, 403-by-path or 200 is written before the request line has
\* been read and the headers consumed; a body follows a 200 status line only;
\* and the connection is closed last.
Rank(pc) ==
    CASE pc = "idle" -> 0
      [] pc = "start" -> 1
      [] pc = "readline" -> 2
      [] pc = "headers" -> 3
      [] pc \in {"run", "drain", "read"} -> 4
      [] pc = "finally" -> 5
      [] pc = "done" -> 6
C23_IpAndRateThenReadThenRoute ==
    /\ [](\A c \in Slots :
            LET k == conn[c] IN
            /\ k.pc \in {"idle", "start"} =>
                  k.verdict = "none" /\ k.lines = 0 /\ k.written = <<>> /\ k.todo = <<>>
            /\ k.lines >= 1 => Allowed(k) /\ k.verdict = "pass"
            /\ k.consumed => k.lines >= 2 /\ WellFormed(k)
            /\ k.pc = "readline" => k.lines = 0
            /\ k.pc = "headers" => k.lines >= 1 /\ ~k.consumed
            /\ k.pc \notin {"idle", "start"} /\ (~Allowed(k) \/ k.verdict = "limited") =>
                  /\ k.lines = 0 /\ ~k.consumed /\ k.input = k.request
                  /\ Output(k) = <<IF Allowed(k) THEN S429 ELSE S403>>
            /\ Allowed(k) /\ k.verdict = "pass" /\ Output(k) # <<>> => k.consumed
            /\ Len(k.written) >= 2 => Head(k.written) \in {S200Plain, S200Html}
            /\ k.closes >= 1 => k.pc = "done" /\ k.todo = <<>>)
    /\ [][\A c \in Slots :
            /\ conn[c]'.pc # "start" => Rank(conn[c]'.pc) >= Rank(conn[c].pc)
            /\ conn[c]'.pc = "start" => conn[c].pc \in {"idle", "done", "start"}
            /\ conn[c]'.pc # "start" /\ conn[c].verdict # "none"
                  => conn[c]'.verdict = conn[c].verdict]_vars
C23_Witness ==
    \E c \in Slots :
        LET k == conn[c] IN
        /\ Last(k) /\ Allowed(k) /\ k.verdict = "pass" /\ IsGet(k, "/")
        /\ k.lines = 2 /\ k.consumed /\ k.closes = 1
        /\ Len(k.sent) > 2 /\ Head(k.sent) = S200Html

\* C24: with the producer appending while GET / is rendered, the version in
\* the polling script of a page, read before the table snapshot is taken, is
\* never greater than the number of body rows of the table of that page; the
\* same holds of the number of appends completed when the version was read,
\* so every record appended before the page was rendered is in its table.
DigitVal(t) == CHOOSE d \in 0..9 : Digit(d) = t
IsDigit(t) == \E d \in 0..9 : Digit(d) = t
RECURSIVE Number(_, _, _)
Number(s, i, acc) ==
    IF i <= Len(s) /\ IsDigit(s[i]) THEN Number(s, i + 1, 10 * acc + DigitVal(s[i])) ELSE acc
ScriptAt(s) == CHOOSE i \in 1..Len(s) : s[i] = "<script>let localCount = "
EmbeddedVersion(s) == Number(s, ScriptAt(s) + 1, 0)
BodyRows(s) == Occurrences(s, "<tr>")
HasTableAndScript(s) ==
    /\ Occurrences(s, "</tbody></table>") = 1
    /\ Occurrences(s, "<script>let localCount = ") = 1
C24_VersionNotAheadOfTable ==
    \A c \in Slots :
        LET k == conn[c] IN
        IsGet(k, "/") =>
            /\ k.reads > 0 => k.countN <= k.snapN
            /\ k.reads > 0 /\ HasTableAndScript(Output(k)) =>
                  /\ ScriptAt(Output(k)) > TableEnd(Output(k))
                  /\ IsDigit(Output(k)[ScriptAt(Output(k)) + 1])
                  /\ EmbeddedVersion(Output(k)) <= BodyRows(Output(k))
                  /\ k.countN <= BodyRows(Output(k))
                  /\ BodyRows(Output(k)) = k.snapN
            /\ Last(k) /\ ~k.broken /\ HasTableAndScript(k.sent) =>
                  /\ EmbeddedVersion(k.sent) <= BodyRows(k.sent)
                  /\ k.countN <= BodyRows(k.sent)
C24_Witness ==
    \E c \in Slots :
        LET k == conn[c] IN
        /\ Last(k) /\ ~k.broken /\ ServedPage(k) /\ HasTableAndScript(k.sent)
        /\ k.countN = 1 /\ k.snapN = 2 /\ BodyRows(k.sent) = 2

\* C25: with several tasks of the same IP taking turns at their awaits, no
\* rate_limited update is lost: the k connections that passed the IP filter
\* within one window leave exactly k timestamps in the window of their IP,
\* one for each of them, and a call leaves the windows of the other IPs and
\* the other tasks as they were.
OneWindow(all) == \A i \in 1..Len(all) : all[Len(all)] - all[i] < WINDOW_MS
C25_NoLostUpdate ==
    /\ [](/\ DOMAIN CLIENT_HITS = DOMAIN allHits
          /\ \A ip \in DOMAIN allHits :
                OneWindow(allHits[ip]) =>
                    /\ Len(CLIENT_HITS[ip]) = Len(allHits[ip])
                    /\ \A i \in 1..Len(allHits[ip]) :
                          CLIENT_HITS[ip][i] = allHits[ip][i] % TICKS_PERIOD
          /\ \A c, d \in Slots :
                c # d /\ conn[c].verdict # "none" /\ conn[d].verdict # "none"
                      /\ conn[c].peer = conn[d].peer
                    => conn[c].hitAt # conn[d].hitAt
          /\ \A c \in Slots :
                conn[c].verdict # "none" =>
                    /\ conn[c].hitAt \in 1..Len(CLIENT_HITS[conn[c].peer[1]])
                    /\ (conn[c].verdict = "limited") <=> (conn[c].hitAt > MAX_REQUESTS))
    /\ [][\A c \in Slots :
            PassesIpFilter(c) =>
                LET ip == conn[c].peer[1] IN
                /\ OneWindow(WindowOf(allHits', ip)) =>
                      Len(WindowOf(CLIENT_HITS', ip)) = Len(WindowOf(CLIENT_HITS, ip)) + 1
                /\ \A x \in DOMAIN CLIENT_HITS \ {ip} :
                      x \in DOMAIN CLIENT_HITS' /\ CLIENT_HITS'[x] = CLIENT_HITS[x]
                /\ \A d \in Slots \ {c} : conn[d]' = conn[d]]_vars
C25_Witness ==
    /\ conn[1].peer = <<IpHome, 80>> /\ conn[2].peer = <<IpHome, 80>>
    /\ conn[1].pc = "headers" /\ conn[2].pc = "readline"
    /\ conn[1].hitAt = 2 /\ conn[2].hitAt = 3
    /\ Len(CLIENT_HITS[IpHome]) = 3
    /\ IpDesk \in DOMAIN CLIENT_HITS /\ Len(CLIENT_HITS[IpDesk]) = 1

\* C26: under fair scheduling (every read and write on the network returns
\* or raises, the producer leaves write_row once it is inside) the task of
\* every accepted connection ends; it has then called writer.close() unless
\* the network failed under it; and a task that waits for the lock while the
\* producer holds it gets the lock.
WaitsForLock(c) ==
    /\ conn[c].pc = "run" /\ active = c
    /\ conn[c].todo # <<>> /\ Head(conn[c].todo).op \in {"rows", "table"}
====
